---- MODULE Spec2Model ----
(***************************************************************************)
(* Model of libcoap's include/coap2/coap_prng.h: the per-platform random   *)
(* byte fillers contiki_prng_impl, lwip_prng_impl and coap_prng_impl       *)
(* (Windows), the prng_init macro of each platform, and the POSIX          *)
(* coap_set_prng / coap_prng dispatch that the header only declares.       *)
(*                                                                         *)
(* The build configuration (which #if branch is compiled, and the byte     *)
(* order of the host that memcpy exposes) is chosen in Init and never      *)
(* changes.  A fill call is executed one loop iteration per step so that   *)
(* termination and the number of generator invocations are observable.     *)
(***************************************************************************)
EXTENDS Integers, Naturals, Sequences, FiniteSets, TLC

(* ---------------------------- bounds ----------------------------------- *)
\* largest length passed to a fill call
MaxLen == 5
\* bytes of the destination that lie behind the largest length
Guard == 4
\* number of operations (seed, fill, set_backend) in one run
MaxOps == 4

(* ------------------------- program constants --------------------------- *)
\* uint16_t: the Contiki word and the argument type of random_init
UINT16_MOD == 65536
\* size_t arithmetic is unsigned; 16 bits is the narrowest size_t among the
\* targets (wider types only move the wrap-around further away)
SIZE_MOD == 65536
\* uint8_t
BYTE_MOD == 256

Platforms == {"contiki", "lwip", "win32", "posix"}
Endians == {"little", "big"}
\* no prng_init directly before the call
NoSeed == {}
\* seed values handed to prng_init; the last one exceeds uint16_t
Seeds == {0, 42, 65578}

BufLen == MaxLen + Guard
BufIdx == 0 .. (BufLen - 1)
\* contents of the caller's buffer before the call
InitBufs == { [i \in BufIdx |-> 170], [i \in BufIdx |-> i] }
BlankBuf == [i \in BufIdx |-> 170]

Max(a, b) == IF a > b THEN a ELSE b
Ceil(a, b) == (a + b - 1) \div b

(* ------------------------- generator primitives ------------------------ *)
\* random_rand(): the Contiki generator, stateful, advanced by every call
random_rand(g) == (g * 25173 + 13849) % UINT16_MOD
\* random_init(seed): reinitialises the generator state from the seed
random_init(g, seed) == seed % UINT16_MOD
\* LWIP_RAND(): a 32-bit word from the port's generator
LWIP_RAND_state(g) == (g * 25173 + 13849) % UINT16_MOD
LWIP_RAND_word(g) == (g % 32768) * 65536 + g
\* rand_s(&r): errno_t result and the value stored through the pointer
RandSErrno == {0, 22}
RandSWords == {0, 67305985, 2147483647}

(* ------------------------------ memory --------------------------------- *)
\* sizeof(v) in each word-based implementation
sizeof_v_contiki == 2
sizeof_v_lwip == 4
rand_s_bytes == 4

\* the bytes of an object of w bytes holding value x, in memory order
RECURSIVE LittleBytes(_, _)
LittleBytes(x, w) ==
  IF w = 0 THEN << >>
  ELSE << x % BYTE_MOD >> \o LittleBytes(x \div BYTE_MOD, w - 1)
RECURSIVE Reverse(_)
Reverse(s) == IF s = << >> THEN << >> ELSE Reverse(Tail(s)) \o << Head(s) >>
ObjectBytes(x, w, e) ==
  IF e = "little" THEN LittleBytes(x, w) ELSE Reverse(LittleBytes(x, w))

\* memcpy(b + p, src, n): writes the first n bytes of src
memcpy(b, p, src, n) ==
  [i \in BufIdx |-> IF i >= p /\ i < p + n /\ i - p + 1 <= Len(src)
                    THEN src[i - p + 1] ELSE b[i]]
Touched(p, n) == { i \in BufIdx : i >= p /\ i < p + n }

\* unsigned subtraction on size_t
SizeSub(a, b) == (a - b + SIZE_MOD) % SIZE_MOD

VARIABLES
  platform,   \* the #if branch compiled
  endian,     \* byte order of the host
  gen,        \* state of the platform generator behind random_rand/LWIP_RAND
  nops,       \* operations started so far
  op,         \* the operation performed last
  pc,         \* position of the caller: "idle", "loop" (inside the filler), "done"
  buf,        \* destination buffer
  buf0,       \* its contents when the call started
  written,    \* indices stored to during the call
  len0,       \* the len argument
  len,        \* the parameter len as the function updates it
  pos,        \* buf - (start of buffer)
  v,          \* the local word v
  words,      \* the words the primitive produced during the call
  ncalls,     \* invocations of the primitive during the call
  nfail,      \* invocations that reported an error
  ret,        \* return value
  seeded,     \* {seed} when the last operation was prng_init(seed), else NoSeed
  curSeed,    \* value of seeded when the current call started
  last,       \* length and output of the last fill that directly followed a seed
  slot,       \* POSIX: the active-backend slot, a reference stored as two halves
  lock,       \* POSIX: owner of the lock that protects the slot
  tpc,        \* POSIX: position of each thread inside coap_prng
  fn,         \* POSIX: the reference each thread loaded from the slot
  expected,   \* POSIX: backend of the last completed coap_set_prng when the thread loaded
  spc,        \* POSIX: position of the thread that calls coap_set_prng
  arg,        \* POSIX: the rng argument of the coap_set_prng in progress
  lastSet,    \* POSIX: argument of the last completed coap_set_prng
  installed   \* POSIX: every backend that has been the active one

posixvars == << slot, lock, tpc, fn, expected, spc, arg, lastSet, installed >>

vars == << platform, endian, gen, nops, op, pc, buf, buf0, written, len0, len,
           pos, v, words, ncalls, nfail, ret, seeded, curSeed, last, posixvars >>

callvars == << buf, buf0, written, len0, len, pos, v, words, ncalls, nfail, ret >>

Prefix(b, n) == [i \in 1 .. n |-> b[i - 1]]

\* POSIX: the backends, the threads that fill, and the lock's free value
Backends == {"default", "custom1", "custom2"}
Threads == {"t1", "t2"}
Setter == "s"
NoOwner == "none"
\* a reference to backend b: both halves name b
Ref(b) == << b, b >>

Init ==
  /\ platform \in Platforms
  /\ slot = Ref("default")
  /\ lock = NoOwner
  /\ tpc = [t \in Threads |-> "idle"]
  /\ fn = [t \in Threads |-> Ref("default")]
  /\ expected = [t \in Threads |-> "default"]
  /\ spc = "idle"
  /\ arg = "default"
  /\ lastSet = "default"
  /\ installed = {"default"}
  /\ endian \in (IF platform \in {"contiki", "lwip"} THEN Endians ELSE {"little"})
  /\ gen = 1
  /\ nops = 0
  /\ op = "init"
  /\ pc = "idle"
  /\ buf = BlankBuf /\ buf0 = BlankBuf
  /\ written = {}
  /\ len0 = 0 /\ len = 0 /\ pos = 0 /\ v = 0
  /\ words = << >>
  /\ ncalls = 0 /\ nfail = 0 /\ ret = 1
  /\ seeded = NoSeed /\ curSeed = NoSeed
  /\ last = [seed |-> NoSeed, n |-> 0, out |-> << >>]

(* ------------------------------ prng_init ------------------------------ *)
\* variant: the seed is dropped, as in the platforms without seeding
prng_init_contiki_ignored(g, Value) == g
\* #define prng_init(Value) random_init((uint16_t)(Value))     (Contiki)
prng_init_contiki(g, Value) == random_init(g, Value % UINT16_MOD)
\* variant: the seed reaches the generator
prng_init_lwip_seeding(g, Value) == Value % UINT16_MOD
\* #define prng_init(Value)                                    (LWIP)
prng_init_lwip(g, Value) == g
\* #define prng_init(Value)                                    (Windows)
prng_init_win32(g, Value) == g

prng_init(Value) ==
  /\ pc = "idle"
  /\ nops < MaxOps
  /\ platform \in {"contiki", "lwip", "win32"}
  /\ gen' = CASE platform = "contiki" -> prng_init_contiki(gen, Value)
              [] platform = "lwip" -> prng_init_lwip(gen, Value)
              [] platform = "win32" -> prng_init_win32(gen, Value)
  /\ nops' = nops + 1
  /\ op' = "seed"
  /\ seeded' = {Value}
  /\ UNCHANGED << posixvars, platform, endian, pc, callvars, curSeed, last >>

(* --------------------------- entry of a call --------------------------- *)
\* the caller passes a buffer and a length
Enter(n, b) ==
  /\ pc = "idle"
  /\ nops < MaxOps
  /\ nops' = nops + 1
  /\ op' = "fill"
  /\ pc' = "loop"
  /\ buf' = b /\ buf0' = b
  /\ written' = {}
  /\ len0' = n /\ len' = n /\ pos' = 0
  /\ nfail' = 0 /\ ret' = 1
  /\ curSeed' = seeded
  /\ seeded' = NoSeed
  /\ UNCHANGED << posixvars, platform, endian, last >>

(* -------------------------- contiki_prng_impl -------------------------- *)
\* variant: the loop runs while any byte remains
contiki_loop_cond_nonzero(l) == l # 0
\* while (len > sizeof(v))
contiki_loop_cond(l) == l > sizeof_v_contiki
\* variant: the last copy takes the whole word
contiki_final_n_word(l) == sizeof_v_contiki
\* memcpy(buf, &v, len) after the loop
contiki_final_n(l) == l

\* uint16_t v = random_rand();
contiki_prng_impl_entry(n, b) ==
  /\ platform = "contiki"
  /\ Enter(n, b)
  /\ gen' = random_rand(gen)
  /\ v' = gen'
  /\ words' = << gen' >>
  /\ ncalls' = 1

\* one iteration of the while loop
contiki_prng_impl_iter ==
  /\ platform = "contiki" /\ pc = "loop"
  /\ contiki_loop_cond(len)
  /\ buf' = memcpy(buf, pos, ObjectBytes(v, sizeof_v_contiki, endian), sizeof_v_contiki)
  /\ written' = written \cup Touched(pos, sizeof_v_contiki)
  /\ len' = SizeSub(len, sizeof_v_contiki)
  /\ pos' = pos + sizeof_v_contiki
  /\ gen' = random_rand(gen)
  /\ v' = gen'
  /\ words' = Append(words, gen')
  /\ ncalls' = ncalls + 1
  /\ UNCHANGED << posixvars, platform, endian, nops, op, pc, buf0, len0, nfail, ret,
                  seeded, curSeed, last >>

\* memcpy(buf, &v, len); return 1;
contiki_prng_impl_exit ==
  /\ platform = "contiki" /\ pc = "loop"
  /\ ~ contiki_loop_cond(len)
  /\ buf' = memcpy(buf, pos, ObjectBytes(v, sizeof_v_contiki, endian), contiki_final_n(len))
  /\ written' = written \cup Touched(pos, contiki_final_n(len))
  /\ ret' = 1
  /\ pc' = "done"
  /\ UNCHANGED << posixvars, platform, endian, gen, nops, op, buf0, len0, len, pos, v,
                  words, ncalls, nfail, seeded, curSeed, last >>

(* ---------------------------- lwip_prng_impl --------------------------- *)
\* variant: a full word is still copied inside the loop
lwip_loop_cond_geq(l) == l >= sizeof_v_lwip
\* while (len > sizeof(v))
lwip_loop_cond(l) == l > sizeof_v_lwip
\* variant: the last copy takes the whole word
lwip_final_n_word(l) == sizeof_v_lwip
\* memcpy(buf, &v, len) after the loop
lwip_final_n(l) == l

\* u32_t v = LWIP_RAND();
lwip_prng_impl_entry(n, b) ==
  /\ platform = "lwip"
  /\ Enter(n, b)
  /\ gen' = LWIP_RAND_state(gen)
  /\ v' = LWIP_RAND_word(gen')
  /\ words' = << LWIP_RAND_word(gen') >>
  /\ ncalls' = 1

lwip_prng_impl_iter ==
  /\ platform = "lwip" /\ pc = "loop"
  /\ lwip_loop_cond(len)
  /\ buf' = memcpy(buf, pos, ObjectBytes(v, sizeof_v_lwip, endian), sizeof_v_lwip)
  /\ written' = written \cup Touched(pos, sizeof_v_lwip)
  /\ len' = SizeSub(len, sizeof_v_lwip)
  /\ pos' = pos + sizeof_v_lwip
  /\ gen' = LWIP_RAND_state(gen)
  /\ v' = LWIP_RAND_word(gen')
  /\ words' = Append(words, LWIP_RAND_word(gen'))
  /\ ncalls' = ncalls + 1
  /\ UNCHANGED << posixvars, platform, endian, nops, op, pc, buf0, len0, nfail, ret,
                  seeded, curSeed, last >>

lwip_prng_impl_exit ==
  /\ platform = "lwip" /\ pc = "loop"
  /\ ~ lwip_loop_cond(len)
  /\ buf' = memcpy(buf, pos, ObjectBytes(v, sizeof_v_lwip, endian), lwip_final_n(len))
  /\ written' = written \cup Touched(pos, lwip_final_n(len))
  /\ ret' = 1
  /\ pc' = "done"
  /\ UNCHANGED << posixvars, platform, endian, gen, nops, op, buf0, len0, len, pos, v,
                  words, ncalls, nfail, seeded, curSeed, last >>

(* ------------------------ coap_prng_impl (Windows) --------------------- *)
\* variant: a test that an unsigned length always passes
win32_loop_cond_geq(l) == l >= 0
\* while ( len != 0 )
win32_loop_cond(l) == l # 0
\* for ( i = 0; i < len && i < 4; i++ )
win32_for_cond(i, l) == i < l /\ i < rand_s_bytes
\* variant: the loop goes on after an error
win32_on_error_continue == "loop"
\* if ( rand_s( &r ) != 0 ) return 0;   -- where control goes on an error
win32_on_error == "done"

\* the for loop: *buf++ = (uint8_t)r; r >>= 8;
RECURSIVE win32_for(_, _, _, _, _)
win32_for(i, r, b, p, l) ==
  IF win32_for_cond(i, l)
  THEN win32_for(i + 1, r \div BYTE_MOD,
                 [b EXCEPT ![p] = r % BYTE_MOD], p + 1, l)
  ELSE [i |-> i, buf |-> b, pos |-> p]

coap_prng_impl_entry(n, b) ==
  /\ platform = "win32"
  /\ Enter(n, b)
  /\ v' = 0
  /\ words' = << >>
  /\ ncalls' = 0
  /\ UNCHANGED gen

\* one iteration of the while loop
coap_prng_impl_iter ==
  /\ platform = "win32" /\ pc = "loop"
  /\ win32_loop_cond(len)
  /\ \E e \in RandSErrno, r \in RandSWords :
       /\ ncalls' = ncalls + 1
       /\ IF e # 0
          THEN /\ nfail' = nfail + 1
               /\ ret' = 0
               /\ pc' = win32_on_error
               /\ v' = 0
               /\ UNCHANGED << buf, written, len, pos, words >>
          ELSE LET f == win32_for(0, r, buf, pos, len) IN
               /\ buf' = f.buf
               /\ written' = written \cup Touched(pos, f.i)
               /\ pos' = f.pos
               /\ len' = SizeSub(len, f.i)
               /\ v' = r
               /\ words' = Append(words, r)
               /\ UNCHANGED << nfail, ret, pc >>
  /\ UNCHANGED << posixvars, platform, endian, gen, nops, op, buf0, len0, seeded, curSeed, last >>

\* return 1;
coap_prng_impl_exit ==
  /\ platform = "win32" /\ pc = "loop"
  /\ ~ win32_loop_cond(len)
  /\ ret' = 1
  /\ pc' = "done"
  /\ UNCHANGED << posixvars, platform, endian, gen, nops, op, buf, buf0, written, len0, len,
                  pos, v, words, ncalls, nfail, seeded, curSeed, last >>

(* ------------------------------- return -------------------------------- *)
\* the caller takes the result; the locals of the call are gone
Return ==
  /\ pc = "done"
  /\ pc' = "idle"
  /\ last' = IF curSeed # NoSeed /\ ret = 1
             THEN [seed |-> curSeed, n |-> len0, out |-> Prefix(buf, len0)]
             ELSE last
  /\ buf' = BlankBuf /\ buf0' = BlankBuf
  /\ written' = {}
  /\ len0' = 0 /\ len' = 0 /\ pos' = 0 /\ v' = 0
  /\ words' = << >>
  /\ ncalls' = 0 /\ nfail' = 0 /\ ret' = 1
  /\ curSeed' = NoSeed
  /\ UNCHANGED << posixvars, platform, endian, gen, nops, op, seeded >>

(* ------------------- coap_set_prng / coap_prng (POSIX) ------------------ *)
mainvars == << gen, pc, callvars, seeded, curSeed, last >>

\* variant: only the first half of the reference is stored
StoreSlot_half(old, new) == << new[1], old[2] >>
\* the store that replaces the active backend
StoreSlot(old, new) == new
\* variant: the dispatch ignores the slot
LoadSlot_default(s) == Ref("default")
\* the load coap_prng dispatches on
LoadSlot(s) == s
\* owner of the lock once the reference has been loaded
LockAfterLoad(t) == NoOwner

\* coap_set_prng(rng): take the slot
coap_set_prng_begin(rng) ==
  /\ platform = "posix"
  /\ spc = "idle" /\ lock = NoOwner
  /\ nops < MaxOps
  /\ nops' = nops + 1
  /\ op' = "set"
  /\ lock' = Setter
  /\ spc' = "store"
  /\ arg' = rng
  /\ UNCHANGED << platform, endian, mainvars, slot, tpc, fn, expected, lastSet, installed >>

\* coap_set_prng(rng): replace the backend and return
coap_set_prng_store ==
  /\ platform = "posix"
  /\ spc = "store"
  /\ slot' = StoreSlot(slot, Ref(arg))
  /\ lastSet' = arg
  /\ installed' = installed \cup {arg}
  /\ lock' = NoOwner
  /\ spc' = "idle"
  /\ UNCHANGED << platform, endian, mainvars, nops, op, tpc, fn, expected, arg >>

\* coap_prng(buf, len): take the slot
coap_prng_begin(t) ==
  /\ platform = "posix"
  /\ tpc[t] = "idle" /\ lock = NoOwner
  /\ nops < MaxOps
  /\ nops' = nops + 1
  /\ op' = "fill"
  /\ lock' = t
  /\ tpc' = [tpc EXCEPT ![t] = "locked"]
  /\ UNCHANGED << platform, endian, mainvars, slot, fn, expected, spc, arg, lastSet, installed >>

\* coap_prng(buf, len): read the active backend
coap_prng_load(t) ==
  /\ platform = "posix"
  /\ tpc[t] = "locked"
  /\ fn' = [fn EXCEPT ![t] = LoadSlot(slot)]
  /\ expected' = [expected EXCEPT ![t] = lastSet]
  /\ lock' = LockAfterLoad(t)
  /\ tpc' = [tpc EXCEPT ![t] = "call"]
  /\ UNCHANGED << platform, endian, mainvars, nops, op, slot, spc, arg, lastSet, installed >>

\* coap_prng(buf, len): the backend runs and its result is returned
coap_prng_call(t) ==
  /\ platform = "posix"
  /\ tpc[t] = "call"
  /\ tpc' = [tpc EXCEPT ![t] = "idle"]
  /\ lock' = IF lock = t THEN NoOwner ELSE lock
  /\ UNCHANGED << platform, endian, mainvars, nops, op, slot, fn, expected, spc, arg,
                  lastSet, installed >>

Next ==
  \/ \E s \in Seeds : prng_init(s)
  \/ \E b \in Backends : coap_set_prng_begin(b)
  \/ coap_set_prng_store
  \/ \E t \in Threads : coap_prng_begin(t)
  \/ \E t \in Threads : coap_prng_load(t)
  \/ \E t \in Threads : coap_prng_call(t)
  \/ \E n \in 0 .. MaxLen, b \in InitBufs : contiki_prng_impl_entry(n, b)
  \/ contiki_prng_impl_iter
  \/ contiki_prng_impl_exit
  \/ \E n \in 0 .. MaxLen, b \in InitBufs : lwip_prng_impl_entry(n, b)
  \/ lwip_prng_impl_iter
  \/ lwip_prng_impl_exit
  \/ \E n \in 0 .. MaxLen, b \in InitBufs : coap_prng_impl_entry(n, b)
  \/ coap_prng_impl_iter
  \/ coap_prng_impl_exit
  \/ Return

Spec == Init /\ [][Next]_vars

\* the processor keeps executing a filler that has been entered
Fairness ==
  /\ WF_vars(contiki_prng_impl_iter) /\ WF_vars(contiki_prng_impl_exit)
  /\ WF_vars(lwip_prng_impl_iter) /\ WF_vars(lwip_prng_impl_exit)
  /\ WF_vars(coap_prng_impl_iter) /\ WF_vars(coap_prng_impl_exit)

FairSpec == Init /\ [][Next]_vars /\ Fairness

(* ============================ properties =============================== *)
WordBased == {"contiki", "lwip", "win32"}
WordSize ==
  CASE platform = "contiki" -> sizeof_v_contiki
    [] platform = "lwip" -> sizeof_v_lwip
    [] OTHER -> rand_s_bytes
\* byte k of word x, least significant first
ByteOf(x, k) == (x \div (BYTE_MOD ^ k)) % BYTE_MOD
\* the byte that index i of the destination must hold: byte (i mod w) of the
\* (i div w)-th word of this call, in memory order for the memcpy backends
\* and least significant first for the shifting Windows backend
FromWord(i) ==
  LET w == WordSize
      k == i % w
      j == (i \div w) + 1
  IN /\ j <= Len(words)
     /\ buf[i] = IF platform = "win32" \/ endian = "little"
                 THEN ByteOf(words[j], k)
                 ELSE ByteOf(words[j], w - 1 - k)

\* C1: a finished fill either returned 1 having stored exactly the bytes
\* buf[0..len-1], each taken from a word generated during the call, or
\* returned 0.
C1_AllOrFail ==
  (pc = "done" /\ platform \in WordBased) =>
     \/ ret = 0
     \/ /\ ret = 1
        /\ written = 0 .. (len0 - 1)
        /\ \A i \in 0 .. (len0 - 1) : FromWord(i)
C1_Witness ==
  pc = "done" /\ ret = 1 /\ len0 = 5 /\ platform = "contiki" /\ endian = "big"

\* C2: a fill of length 0 returns 1 and leaves every byte of the buffer as
\* it was, on every backend.
C2_ZeroLength ==
  (pc = "done" /\ len0 = 0) => (ret = 1 /\ written = {} /\ buf = buf0)
C2_Witness ==
  pc = "done" /\ len0 = 0 /\ platform = "contiki" /\ ncalls = 1 /\ buf # BlankBuf

\* C3: every coap_prng call runs the backend given to the most recent
\* coap_set_prng (the default when there was none), never an earlier one.
C3_DispatchLatest ==
  \A t \in Threads : tpc[t] = "call" => fn[t] = Ref(expected[t])
C3_Witness ==
  \E t \in Threads :
    tpc[t] = "call" /\ expected[t] = "custom2" /\ "custom1" \in installed

C5_SeedReproduces ==
  (platform = "contiki" /\ pc = "done" /\ curSeed # NoSeed
     /\ last.seed = curSeed /\ last.n = len0)
  => Prefix(buf, len0) = last.out
C5_Witness ==
  /\ platform = "contiki" /\ pc = "done" /\ curSeed = {65578}
  /\ last.seed = curSeed /\ last.n = len0 /\ len0 = 3

\* C6: on LWIP and Windows prng_init changes nothing: the generator state,
\* the buffer and every other part of the state stay as they were.
C6_SeedNoOp ==
  [][(platform \in {"lwip", "win32"} /\ op' = "seed" /\ nops' = nops + 1)
       => (gen' = gen /\ pc' = pc /\ last' = last /\ UNCHANGED callvars
           /\ UNCHANGED posixvars)]_vars
C6_Witness ==
  platform = "lwip" /\ op = "seed" /\ seeded = {42} /\ gen # 1

\* C7: during and after a fill no byte at an index >= len is stored to.
C7_NoOverrun ==
  (pc \in {"loop", "done"}) =>
    \A i \in BufIdx : i >= len0 => (i \notin written /\ buf[i] = buf0[i])
C7_Witness ==
  platform = "lwip" /\ pc = "done" /\ len0 = 5 /\ written = 0 .. 4 /\ buf0 # BlankBuf

\* C8: the Windows filler with len > 0 returns 0 exactly when a rand_s call
\* failed; it stops at the first failure (no state of the running loop has a
\* failed call behind it), the bytes stored are then a prefix of whole words
\* shorter than len, and it returns 1 only when every rand_s succeeded.
C8_FailFast ==
  /\ (platform = "win32" /\ pc = "loop") => nfail = 0
  /\ (platform = "win32" /\ pc = "done" /\ len0 > 0) =>
       /\ (ret = 0) <=> (nfail > 0)
       /\ nfail <= 1
       /\ ncalls = Len(words) + nfail
       /\ ret = 0 =>
            /\ written = 0 .. (rand_s_bytes * Len(words) - 1)
            /\ rand_s_bytes * Len(words) < len0
            /\ buf = [i \in BufIdx |-> IF i \in written THEN ByteOf(words[(i \div rand_s_bytes) + 1], i % rand_s_bytes)
                                       ELSE buf0[i]]
       /\ ret = 1 => nfail = 0
C8_Witness ==
  platform = "win32" /\ pc = "done" /\ ret = 0 /\ len0 = 5 /\ Len(words) = 1

\* C9 as stated: a successful fill of len bytes invokes the primitive exactly
\* ceil(len / w) times.
C9_CeilInvocations ==
  (pc = "done" /\ ret = 1 /\ platform \in WordBased) =>
     ncalls = Ceil(len0, WordSize)
\* C9 amended: a successful fill invokes the primitive ceil(len / w) times for
\* len >= 1; for len = 0 the Contiki and LWIP fillers still invoke it once
\* (the word is fetched before the loop test) and the Windows filler never.
C9_InvocationCount ==
  (pc = "done" /\ ret = 1 /\ platform \in WordBased) =>
     /\ ncalls = IF platform = "win32" THEN Ceil(len0, WordSize)
                 ELSE Max(1, Ceil(len0, WordSize))
     /\ Len(words) = ncalls
     /\ written = 0 .. (len0 - 1)
C9_Witness ==
  pc = "done" /\ ret = 1 /\ platform = "contiki" /\ len0 = 5 /\ ncalls = 3

\* C10: every fill that has been entered returns, and each loop iteration
\* makes the remaining length strictly smaller (it never wraps).
C10_Terminates ==
  /\ (pc = "loop") ~> (pc = "done")
  /\ [][(pc = "loop" /\ pc' = "loop") => len' < len]_vars
C10_Witness ==
  pc = "done" /\ platform = "win32" /\ len0 = 5 /\ ncalls = 2 /\ ret = 1
====
